---------------------------- MODULE Spec2Model ----------------------------
(***************************************************************************)
(* A model of mercurial/match.py: the pattern splitter, the glob-to-regex  *)
(* translator, the per-kind regex emitter, the matcher builder (with its   *)
(* overflow split and its lazily cached subinclude matchers), the matcher  *)
(* object (matchfn, visitdir, files, exact, isexact, always, prefix), the  *)
(* subdirmatcher and badmatch.                                             *)
(*                                                                         *)
(* Strings are sequences of one-character strings ("a/b" is                *)
(* <<"a", "/", "b">>).  A regular expression is the sequence of its tokens *)
(* ("(?:", "|", ")", "[^/]", "\\/", ...), so that its length is the length *)
(* of the text the code builds; compiling it parses the tokens.            *)
(***************************************************************************)
EXTENDS Integers, Sequences, FiniteSets, TLC

----------------------------------------------------------------------------
(* Strings *)

\* the letters and digits of the modelled alphabet (re.escape leaves them)
AlNum ==
    {"a", "b", "c", "d", "e", "f", "g", "h", "i", "j", "k", "l", "m", "n", "o",
     "p", "q", "r", "s", "t", "u", "v", "w", "x", "y", "z", "0", "1"}

\* s[i..] (Python s[i-1:])
Drop(s, n) == SubSeq(s, n + 1, Len(s))

\* Python s.startswith(pre)
startswith(s, pre) ==
    /\ Len(pre) <= Len(s)
    /\ SubSeq(s, 1, Len(pre)) = pre

\* Python s.find(c) + 1: the first index of c in s, 0 when there is none
Find(s, c) ==
    IF \E i \in 1..Len(s) : s[i] = c
    THEN CHOOSE i \in 1..Len(s) : s[i] = c /\ \A j \in 1..(i - 1) : s[j] # c
    ELSE 0

\* Python s.rfind(c, 0, hi) + 1: the last index of c in s[1..hi], 0 when none
RFind(s, c, hi) ==
    IF \E i \in 1..hi : s[i] = c
    THEN CHOOSE i \in 1..hi : s[i] = c /\ \A j \in (i + 1)..hi : s[j] # c
    ELSE 0

\* the elements of a sequence
Range(s) == {s[i] : i \in 1..Len(s)}

\* a local variable: Op of the value v it is assigned
With(v, Op(_)) == Op(v)

\* the string "."
Dot == <<".">>

\* util.finddirs(path): every proper ancestor directory of path, nearest
\* first, the root "." not included
RECURSIVE finddirsfrom(_, _)
finddirsfrom(path, pos) ==
    IF pos = 0 THEN <<>>
    ELSE <<SubSeq(path, 1, pos - 1)>> \o finddirsfrom(path, RFind(path, "/", pos - 1))

finddirs(path) == finddirsfrom(path, RFind(path, "/", Len(path)))

\* util.dirs(files), as a set: the ancestors of every file
dirs(files) == UNION {Range(finddirs(f)) : f \in files}

\* util.normpath on the normal forms the model uses: "" is "."
normpath(pat) == IF pat = <<>> THEN Dot ELSE pat

\* pathutil.canonpath(root, cwd, pat) with cwd = root, on normal forms:
\* the root itself ("" or ".") is ""
canonpath(pat) == IF pat = Dot THEN <<>> ELSE pat

----------------------------------------------------------------------------
(* Regular expressions: tokens, their text length, compilation, matching *)

\* a block of LongLen letters: a long name, written as one element of a
\* string, so that texts near the 20000 limit stay small values
LongChar == "L"

LongLen == 9980

\* the number of characters an element of a string or a token stands for
Width(tok) == IF tok = LongChar THEN LongLen ELSE Len(tok)

\* len(regex) of a token sequence
RECURSIVE TextLen(_)
TextLen(toks) ==
    IF toks = <<>> THEN 0 ELSE Width(Head(toks)) + TextLen(Tail(toks))

\* re.escape of one character: everything but letters and digits gets a
\* backslash
escapechar(c) == IF c \in AlNum \cup {LongChar} THEN c ELSE "\\" \o c

\* re.escape(pat)
escape(pat) == [i \in 1..Len(pat) |-> escapechar(pat[i])]

\* the characters of the alphabet that are not letters
Special == {"/", ".", "*", "?", "^", "$", ":", "{", "}", ",", "\\", " "}

Chars == AlNum \cup {LongChar} \cup Special

\* the literal an escaped token stands for
unescape(tok) ==
    IF tok \in Chars THEN tok ELSE CHOOSE c \in Chars : escapechar(c) = tok

Postfix == {"*", "?", "+"}

\* sre_parse: one atom at toks[i]
RECURSIVE ParseAlt(_, _)
ParseAtom(toks, i) ==
    LET t == toks[i] IN
    IF t = "(?:"
    THEN LET r == ParseAlt(toks, i + 1) IN [n |-> r.n, i |-> r.i + 1]
    ELSE IF t = "." THEN [n |-> [t |-> "any"], i |-> i + 1]
    ELSE IF t = "[^/]" THEN [n |-> [t |-> "notslash"], i |-> i + 1]
    ELSE IF t = "^" THEN [n |-> [t |-> "bol"], i |-> i + 1]
    ELSE IF t = "$" THEN [n |-> [t |-> "eol"], i |-> i + 1]
    ELSE [n |-> [t |-> "lit", c |-> unescape(t)], i |-> i + 1]

\* the repetition operators that follow an atom
RECURSIVE ParsePost(_, _)
ParsePost(toks, r) ==
    IF r.i <= Len(toks) /\ toks[r.i] \in Postfix
    THEN ParsePost(toks, [n |-> [t |-> toks[r.i], r |-> r.n], i |-> r.i + 1])
    ELSE r

\* a concatenation: atoms up to the next "|" or ")" or the end
RECURSIVE ParseCat(_, _, _)
ParseCat(toks, i, acc) ==
    IF i > Len(toks) \/ toks[i] \in {"|", ")"}
    THEN [n |-> [t |-> "cat", rs |-> acc], i |-> i]
    ELSE LET r == ParsePost(toks, ParseAtom(toks, i))
         IN ParseCat(toks, r.i, Append(acc, r.n))

\* an alternation a|b|...
RECURSIVE ParseAltRest(_, _, _)
ParseAltRest(toks, i, acc) ==
    IF i <= Len(toks) /\ toks[i] = "|"
    THEN LET r == ParseCat(toks, i + 1, <<>>)
         IN ParseAltRest(toks, r.i, Append(acc, r.n))
    ELSE [n |-> [t |-> "alt", rs |-> acc], i |-> i]

ParseAlt(toks, i) ==
    LET r == ParseCat(toks, i, <<>>) IN ParseAltRest(toks, r.i, <<r.n>>)

\* re.compile(regex)
compile(toks) == ParseAlt(toks, 1).n

\* the positions where a match of node r that starts at position i of s can
\* end (a position is the index of the next character)
RECURSIVE Ends(_, _, _)
RECURSIVE EndsCat(_, _, _)
RECURSIVE EndsStar(_, _, _)
Ends(r, s, i) ==
    CASE r.t = "lit" -> IF i <= Len(s) /\ s[i] = r.c THEN {i + 1} ELSE {}
      [] r.t = "any" -> IF i <= Len(s) THEN {i + 1} ELSE {}
      [] r.t = "notslash" -> IF i <= Len(s) /\ s[i] # "/" THEN {i + 1} ELSE {}
      [] r.t = "bol" -> IF i = 1 THEN {i} ELSE {}
      [] r.t = "eol" -> IF i = Len(s) + 1 THEN {i} ELSE {}
      [] r.t = "cat" -> EndsCat(r.rs, s, {i})
      [] r.t = "alt" -> UNION {Ends(r.rs[k], s, i) : k \in 1..Len(r.rs)}
      [] r.t = "?" -> {i} \cup Ends(r.r, s, i)
      [] r.t = "*" -> EndsStar(r.r, s, {i})
      [] r.t = "+" -> EndsStar(r.r, s, Ends(r.r, s, i))

EndsCat(rs, s, from) ==
    IF rs = <<>> THEN from
    ELSE EndsCat(Tail(rs), s, UNION {Ends(Head(rs), s, i) : i \in from})

EndsStar(r, s, from) ==
    LET more == from \cup UNION {Ends(r, s, i) : i \in from}
    IN IF more = from THEN from ELSE EndsStar(r, s, more)

\* _rematcher(regex)(s): re.match, a match that starts at the start of s
rematch(regex, s) == Ends(compile(regex), s, 1) # {}

----------------------------------------------------------------------------
(* The glob translator and the per-kind regex emitter *)

\* peek() of _globre: the character at i, or none past the end
peek(pat, i) == IF i <= Len(pat) THEN pat[i] ELSE ""

\* _globre's loop from position i with `group` open braces.  Bracket
\* classes are not modelled: "[" is not in the alphabet of the patterns.
RECURSIVE globrefrom(_, _, _)
globrefrom(pat, i, group) ==
    IF i > Len(pat) THEN <<>>
    ELSE LET c == pat[i] IN
    IF c \notin {"*", "?", "{", "}", ",", "\\"}
    THEN <<escapechar(c)>> \o globrefrom(pat, i + 1, group)
    ELSE IF c = "*"
    THEN IF peek(pat, i + 1) = "*"
         THEN IF peek(pat, i + 2) = "/"
              THEN <<"(?:", ".", "*", "/", ")", "?">> \o globrefrom(pat, i + 3, group)
              ELSE <<".", "*">> \o globrefrom(pat, i + 2, group)
         ELSE <<"[^/]", "*">> \o globrefrom(pat, i + 1, group)
    ELSE IF c = "?"
    THEN <<".">> \o globrefrom(pat, i + 1, group)
    ELSE IF c = "{"
    THEN <<"(?:">> \o globrefrom(pat, i + 1, group + 1)
    ELSE IF c = "}" /\ group > 0
    THEN <<")">> \o globrefrom(pat, i + 1, group - 1)
    ELSE IF c = "," /\ group > 0
    THEN <<"|">> \o globrefrom(pat, i + 1, group)
    ELSE IF c = "\\"
    THEN IF peek(pat, i + 1) # ""
         THEN <<escapechar(peek(pat, i + 1))>> \o globrefrom(pat, i + 2, group)
         ELSE <<escapechar(c)>> \o globrefrom(pat, i + 1, group)
    ELSE <<escapechar(c)>> \o globrefrom(pat, i + 1, group)

\* _globre(pat): an extended glob as a regexp
_globre(pat) == globrefrom(pat, 1, 0)

\* the two glob suffixes the matcher passes: '$' for the patterns,
\* '(?:/|$)' for include and exclude
SuffixEnd == <<"$">>

SuffixDir == <<"(?:", "/", "|", "$", ")">>

\* _regex(kind, pat, globsuffix)
_regex(kind, pat, globsuffix) ==
    IF pat = <<>> THEN <<>>
    ELSE IF kind = "re" THEN pat
    ELSE IF kind = "path"
    THEN IF pat = Dot THEN <<>>
         ELSE <<"^">> \o escape(pat) \o <<"(?:", "/", "|", "$", ")">>
    ELSE IF kind = "rootfilesin"
    THEN LET escaped == IF pat = Dot THEN <<>> ELSE escape(pat) \o <<"/">>
         IN <<"^">> \o escaped \o <<"[^/]", "+", "$">>
    ELSE IF kind = "relglob"
    THEN <<"(?:", "|", ".", "*", "/", ")">> \o _globre(pat) \o globsuffix
    ELSE IF kind = "relpath"
    THEN escape(pat) \o <<"(?:", "/", "|", "$", ")">>
    ELSE IF kind = "relre"
    THEN IF startswith(pat, <<"^">>) THEN pat ELSE <<".", "*">> \o pat
    ELSE _globre(pat) \o globsuffix

----------------------------------------------------------------------------
(* The pattern splitter, the pattern file reader and the normalizer *)

\* pat.split('/')
RECURSIVE split(_, _)
split(s, c) ==
    LET i == Find(s, c) IN
    IF i = 0 THEN <<s>> ELSE <<SubSeq(s, 1, i - 1)>> \o split(Drop(s, i), c)

\* '/'.join(parts)
RECURSIVE join(_, _)
join(sep, parts) ==
    IF parts = <<>> THEN <<>>
    ELSE IF Len(parts) = 1 THEN parts[1]
    ELSE parts[1] \o sep \o join(sep, Tail(parts))

\* the character NUL, one element of a string
Nul == "NUL"

\* the text of the pattern kinds _patsplit knows
KindText ==
    [re |-> <<"r", "e">>,
     glob |-> <<"g", "l", "o", "b">>,
     path |-> <<"p", "a", "t", "h">>,
     relglob |-> <<"r", "e", "l", "g", "l", "o", "b">>,
     relpath |-> <<"r", "e", "l", "p", "a", "t", "h">>,
     relre |-> <<"r", "e", "l", "r", "e">>,
     listfile |-> <<"l", "i", "s", "t", "f", "i", "l", "e">>,
     listfile0 |-> <<"l", "i", "s", "t", "f", "i", "l", "e", "0">>,
     set |-> <<"s", "e", "t">>,
     include |-> <<"i", "n", "c", "l", "u", "d", "e">>,
     subinclude |-> <<"s", "u", "b", "i", "n", "c", "l", "u", "d", "e">>,
     rootfilesin |-> <<"r", "o", "o", "t", "f", "i", "l", "e", "s", "i", "n">>]

\* _patsplit(pattern, default): <<kind, pat>>
_patsplit(pattern, default) ==
    LET i == Find(pattern, ":") IN
    IF i > 0 /\ \E k \in DOMAIN KindText : KindText[k] = SubSeq(pattern, 1, i - 1)
    THEN <<CHOOSE k \in DOMAIN KindText : KindText[k] = SubSeq(pattern, 1, i - 1),
           Drop(pattern, i)>>
    ELSE <<default, pattern>>

\* the text 'kind:pat' of a pattern
Pat(kind, pat) == KindText[kind] \o <<":">> \o pat

\* the pattern files of the tree: the lines of each file that can be read
\* (a file that is not in the domain cannot be read)
PatternFiles ==
    (<<"a", "/", "x">> :> <<Pat("glob", <<"b">>)>>)
    @@ (<<"a", "/", "y">> :> <<Pat("glob", <<"a">>)>>)
    @@ (<<"b", "/", "x">> :> <<<<"s", "y", "n", "t", "a", "x", ":", " ", "g", "l", "o", "b">>,
                               <<"a">>>>)
    @@ (<<"x">> :> <<Pat("re", <<"b">>)>>)
    @@ (<<"y">> :> <<<<"a", Nul, "b", Nul>>>>)
    @@ (<<"b", "/", "y">> :> <<<<"s", "y", "n", "t", "a", "x", ":", " ", "f", "o", "o">>,
                               Pat("listfile", <<"n">>)>>)

\* line.rstrip() and line.strip(), of blanks
RECURSIVE rstrip(_)
rstrip(line) ==
    IF line # <<>> /\ line[Len(line)] = " "
    THEN rstrip(SubSeq(line, 1, Len(line) - 1)) ELSE line

RECURSIVE lstrip(_)
lstrip(line) == IF line # <<>> /\ Head(line) = " " THEN lstrip(Tail(line)) ELSE line

\* the table `syntaxes` of readpatternfile, as <<name, prefix>> pairs
syntaxes ==
    <<<<<<"r", "e">>, <<"r", "e", "l", "r", "e", ":">>>>,
      <<<<"r", "e", "g", "e", "x", "p">>, <<"r", "e", "l", "r", "e", ":">>>>,
      <<<<"g", "l", "o", "b">>, <<"r", "e", "l", "g", "l", "o", "b", ":">>>>,
      <<<<"i", "n", "c", "l", "u", "d", "e">>, <<"i", "n", "c", "l", "u", "d", "e">>>>,
      <<<<"s", "u", "b", "i", "n", "c", "l", "u", "d", "e">>,
        <<"s", "u", "b", "i", "n", "c", "l", "u", "d", "e">>>>>>

\* a mutant of linepattern: only the prefixes of the table are looked for,
\* not its names followed by ":"
RECURSIVE linepattern_prefixonly(_, _, _)
linepattern_prefixonly(line, syntax, k) ==
    IF k > Len(syntaxes) THEN syntax \o line
    ELSE With(syntaxes[k], LAMBDA e :
             IF startswith(line, e[2]) THEN e[2] \o Drop(line, Len(e[2]))
             ELSE linepattern_prefixonly(line, syntax, k + 1))

\* the loop over `syntaxes` for one line, from entry k: the pattern emitted
RECURSIVE linepattern(_, _, _)
linepattern(line, syntax, k) ==
    IF k > Len(syntaxes) THEN syntax \o line
    ELSE With(syntaxes[k], LAMBDA e :
             \* e is <<s, rels>>
             IF startswith(line, e[2]) THEN e[2] \o Drop(line, Len(e[2]))
             ELSE IF startswith(line, e[1] \o <<":">>)
                  THEN e[2] \o Drop(line, Len(e[1]) + 1)
                  ELSE linepattern(line, syntax, k + 1))

\* the body of readpatternfile's loop over the lines; comments are not
\* modelled ("#" is not in the alphabet)
RECURSIVE readlines(_, _)
readlines(lines, syntax) ==
    IF lines = <<>> THEN <<>>
    ELSE LET line == rstrip(Head(lines)) IN
         IF line = <<>> THEN readlines(Tail(lines), syntax)
         ELSE IF startswith(line, <<"s", "y", "n", "t", "a", "x", ":">>)
         THEN LET s == rstrip(lstrip(Drop(line, 7)))
                  known == {e \in Range(syntaxes) : e[1] = s}
              IN IF known # {}
                 THEN readlines(Tail(lines), (CHOOSE e \in known : TRUE)[2])
                 ELSE readlines(Tail(lines), syntax)
         ELSE <<linepattern(line, syntax, 1)>> \o readlines(Tail(lines), syntax)

\* the names readpatternfile's loop gives to warn as invalid syntax, when
\* warn is given
RECURSIVE readwarnings(_)
readwarnings(lines) ==
    IF lines = <<>> THEN <<>>
    ELSE LET line == rstrip(Head(lines)) IN
         IF line # <<>> /\ startswith(line, <<"s", "y", "n", "t", "a", "x", ":">>)
         THEN LET s == rstrip(lstrip(Drop(line, 7))) IN
              (IF \E e \in Range(syntaxes) : e[1] = s THEN <<>> ELSE <<s>>)
              \o readwarnings(Tail(lines))
         ELSE readwarnings(Tail(lines))

\* readpatternfile(filepath, warn) of a file that can be read
readpatternfile(filepath) ==
    readlines(PatternFiles[filepath], <<"r", "e", "l", "r", "e", ":">>)

\* the patterns of a list file: the lines of it, or the parts between the
\* NULs, that are not empty
nonempty(fs) == SelectSeq(fs, LAMBDA f : f # <<>>)

listed(kind, pat) ==
    nonempty(IF kind = "listfile0"
             THEN split(join(<<"\n">>, PatternFiles[pat]), Nul)
             ELSE PatternFiles[pat])

\* kindpats.append((k, p, source)) for the kindpats of a file
sourced(kps, pat, always) ==
    [i \in 1..Len(kps) |->
        <<kps[i][1], kps[i][2],
          IF always \/ kps[i][3] = <<>> THEN pat ELSE kps[i][3]>>]

\* whether _donormalize(patterns, default, root, cwd, auditor, warn) raises
\* error.Abort: a list file cannot be read, here or in a file included
RECURSIVE _donormalize_aborts(_, _)
_donormalize_aborts(patterns, default) ==
    IF patterns = <<>> THEN FALSE
    ELSE With(_patsplit(Head(patterns), default), LAMBDA kp :
         IF kp[1] \in {"listfile", "listfile0"}
         THEN \/ kp[2] \notin DOMAIN PatternFiles
              \/ _donormalize_aborts(listed(kp[1], kp[2]), default)
              \/ _donormalize_aborts(Tail(patterns), default)
         ELSE IF kp[1] = "include"
         THEN \/ /\ kp[2] \in DOMAIN PatternFiles
                 /\ _donormalize_aborts(readpatternfile(kp[2]), default)
              \/ _donormalize_aborts(Tail(patterns), default)
         ELSE _donormalize_aborts(Tail(patterns), default))

\* what _donormalize and the readpatternfile it calls give to warn, until
\* it returns or raises: the names of the pattern files that cannot be
\* read and the invalid syntax names
RECURSIVE _donormalize_warned(_, _)
_donormalize_warned(patterns, default) ==
    IF patterns = <<>> THEN <<>>
    ELSE With(_patsplit(Head(patterns), default), LAMBDA kp :
         IF kp[1] \in {"listfile", "listfile0"}
         THEN IF kp[2] \notin DOMAIN PatternFiles THEN <<>>
              ELSE _donormalize_warned(listed(kp[1], kp[2]), default)
                   \o (IF _donormalize_aborts(listed(kp[1], kp[2]), default) THEN <<>>
                       ELSE _donormalize_warned(Tail(patterns), default))
         ELSE IF kp[1] = "include"
         THEN IF kp[2] \notin DOMAIN PatternFiles
              THEN <<kp[2]>> \o _donormalize_warned(Tail(patterns), default)
              ELSE readwarnings(PatternFiles[kp[2]])
                   \o _donormalize_warned(readpatternfile(kp[2]), default)
                   \o (IF _donormalize_aborts(readpatternfile(kp[2]), default) THEN <<>>
                       ELSE _donormalize_warned(Tail(patterns), default))
         ELSE _donormalize_warned(Tail(patterns), default))

\* a mutant of _donormalize: an include that cannot be read ends the loop
RECURSIVE _donormalize_break(_, _)
_donormalize_break(patterns, default) ==
    IF patterns = <<>> THEN <<>>
    ELSE With(_patsplit(Head(patterns), default), LAMBDA kp :
         LET kind == kp[1]
             pat == kp[2]
             rest == _donormalize_break(Tail(patterns), default)
         IN IF kind \in {"glob", "relpath"}
            THEN <<<<kind, canonpath(pat), <<>>>>>> \o rest
            ELSE IF kind \in {"relglob", "path", "rootfilesin"}
            THEN <<<<kind, normpath(pat), <<>>>>>> \o rest
            ELSE IF kind \in {"listfile", "listfile0"}
            THEN IF pat \in DOMAIN PatternFiles
                 THEN sourced(_donormalize_break(listed(kind, pat), default), pat, TRUE)
                      \o rest
                 ELSE rest
            ELSE IF kind = "include"
            THEN IF pat \in DOMAIN PatternFiles
                 THEN sourced(_donormalize_break(readpatternfile(pat), default), pat, FALSE)
                      \o rest
                 ELSE <<>>
            ELSE <<<<kind, pat, <<>>>>>> \o rest)

\* _donormalize(patterns, default, root, cwd, auditor, warn): the kindpats
\* <<kind, pat, source>> it returns when it does not raise (see
\* _donormalize_aborts); an include that cannot be read is skipped
RECURSIVE _donormalize(_, _)
_donormalize(patterns, default) ==
    IF patterns = <<>> THEN <<>>
    ELSE With(_patsplit(Head(patterns), default), LAMBDA kp :
         LET kind == kp[1]
             pat == kp[2]
             rest == _donormalize(Tail(patterns), default)
         IN IF kind \in {"glob", "relpath"}
            THEN <<<<kind, canonpath(pat), <<>>>>>> \o rest
            ELSE IF kind \in {"relglob", "path", "rootfilesin"}
            THEN <<<<kind, normpath(pat), <<>>>>>> \o rest
            ELSE IF kind \in {"listfile", "listfile0"}
            THEN IF pat \in DOMAIN PatternFiles
                 THEN sourced(_donormalize(listed(kind, pat), default), pat, TRUE)
                      \o rest
                 ELSE rest
            ELSE IF kind = "include"
            THEN IF pat \in DOMAIN PatternFiles
                 THEN sourced(_donormalize(readpatternfile(pat), default), pat, FALSE)
                      \o rest
                 ELSE rest
            ELSE <<<<kind, pat, <<>>>>>> \o rest)

----------------------------------------------------------------------------
(* Roots and directories of the patterns *)

\* the non-glob prefix of a glob: its components up to the first one that
\* holds one of [ { * ?
RECURSIVE globroot(_)
globroot(parts) ==
    IF parts = <<>> THEN <<>>
    ELSE IF \E i \in 1..Len(parts[1]) : parts[1][i] \in {"[", "{", "*", "?"}
    THEN <<>>
    ELSE <<parts[1]>> \o globroot(Tail(parts))

\* pat or '.'
ordot(pat) == IF pat = <<>> THEN Dot ELSE pat

\* _patternrootsanddirs(kindpats): [r |-> the roots, d |-> the directories]
RECURSIVE _patternrootsanddirs(_)
_patternrootsanddirs(kindpats) ==
    IF kindpats = <<>> THEN [r |-> <<>>, d |-> <<>>]
    ELSE LET kind == kindpats[1][1]
             pat == kindpats[1][2]
             rest == _patternrootsanddirs(Tail(kindpats))
         IN IF kind = "glob"
            THEN [r |-> <<ordot(join(<<"/">>, globroot(split(pat, "/"))))>> \o rest.r,
                  d |-> rest.d]
            ELSE IF kind \in {"relpath", "path"}
            THEN [r |-> <<ordot(pat)>> \o rest.r, d |-> rest.d]
            ELSE IF kind = "rootfilesin"
            THEN [r |-> rest.r, d |-> <<ordot(pat)>> \o rest.d]
            ELSE [r |-> <<Dot>> \o rest.r, d |-> rest.d]

\* _roots(kindpats)
_roots(kindpats) == _patternrootsanddirs(kindpats).r

\* _rootsanddirs(kindpats), as sets: the directories get the parents of
\* the roots and of the directories, and '.'
_rootsanddirs(kindpats) ==
    With(_patternrootsanddirs(kindpats), LAMBDA rd :
        [r |-> Range(rd.r),
         d |-> Range(rd.d) \cup dirs(Range(rd.d)) \cup dirs(Range(rd.r)) \cup {Dot}])

\* the elements of a sequence that satisfy a kind test, in order
RECURSIVE filable(_)
filable(kindpats) ==
    IF kindpats = <<>> THEN <<>>
    ELSE IF kindpats[1][1] # "rootfilesin"
    THEN <<kindpats[1]>> \o filable(Tail(kindpats))
    ELSE filable(Tail(kindpats))

\* _explicitfiles(kindpats)
_explicitfiles(kindpats) == _roots(filable(kindpats))

\* a mutant of _anypats: a glob is not taken for a pattern
_anypats_noglob(kindpats) ==
    \E i \in 1..Len(kindpats) :
        kindpats[i][1] \in {"re", "relglob", "relre", "set", "rootfilesin"}

\* _anypats(kindpats) (None is false)
_anypats(kindpats) ==
    \E i \in 1..Len(kindpats) :
        kindpats[i][1] \in {"glob", "re", "relglob", "relre", "set", "rootfilesin"}

\* _kindpatsalwaysmatch(kindpats)
_kindpatsalwaysmatch(kindpats) ==
    \A i \in 1..Len(kindpats) :
        ~(kindpats[i][2] # <<>> \/ kindpats[i][1] \notin {"relpath", "glob"})

----------------------------------------------------------------------------
(* The matcher builder *)

\* the limit on len(regex) above which _buildregexmatch splits the list
MaxRegexLen == 20000

\* the fragments of the kindpats joined by '|'
RECURSIVE joinregex(_, _)
joinregex(kindpats, globsuffix) ==
    IF kindpats = <<>> THEN <<>>
    ELSE _regex(kindpats[1][1], kindpats[1][2], globsuffix)
         \o (IF Len(kindpats) = 1 THEN <<>>
             ELSE <<"|">> \o joinregex(Tail(kindpats), globsuffix))

\* the regex text '(?:%s)' % '|'.join(...) of _buildregexmatch
regextext(kindpats, globsuffix) ==
    <<"(?:">> \o joinregex(kindpats, globsuffix) \o <<")">>

\* a mutant of _buildregexmatch: the second half is built but not called
RECURSIVE _buildregexmatch_firsthalf(_, _)
_buildregexmatch_firsthalf(kindpats, globsuffix) ==
    With(regextext(kindpats, globsuffix), LAMBDA regex :
       LET l == Len(kindpats) IN
       IF TextLen(regex) > MaxRegexLen
       THEN IF l < 2
            THEN [err |-> TRUE, regex |-> regex, fn |-> [k |-> "none"]]
            ELSE LET a == _buildregexmatch_firsthalf(SubSeq(kindpats, 1, l \div 2),
                                                     globsuffix)
                     b == _buildregexmatch_firsthalf(SubSeq(kindpats, (l \div 2) + 1, l),
                                                     globsuffix)
                 IN IF a.err \/ b.err
                    THEN [err |-> TRUE, regex |-> regex, fn |-> [k |-> "none"]]
                    ELSE [err |-> FALSE, regex |-> regex,
                          fn |-> [k |-> "or", a |-> a.fn, b |-> a.fn]]
       ELSE [err |-> FALSE, regex |-> regex, fn |-> [k |-> "re", regex |-> regex]])

\* _buildregexmatch(kindpats, globsuffix): [err |-> OverflowError was
\* raised, regex |-> the text, fn |-> the match function, a compiled
\* regex or the `or` of the functions of the two halves]
RECURSIVE _buildregexmatch(_, _)
_buildregexmatch(kindpats, globsuffix) ==
    With(regextext(kindpats, globsuffix), LAMBDA regex :
       LET l == Len(kindpats) IN
       IF TextLen(regex) > MaxRegexLen
       THEN IF l < 2
            THEN [err |-> TRUE, regex |-> regex, fn |-> [k |-> "none"]]
            ELSE LET a == _buildregexmatch(SubSeq(kindpats, 1, l \div 2), globsuffix)
                     b == _buildregexmatch(SubSeq(kindpats, (l \div 2) + 1, l), globsuffix)
                 IN IF a.err \/ b.err
                    THEN [err |-> TRUE, regex |-> regex, fn |-> [k |-> "none"]]
                    ELSE [err |-> FALSE, regex |-> regex,
                          fn |-> [k |-> "or", a |-> a.fn, b |-> b.fn]]
       ELSE [err |-> FALSE, regex |-> regex, fn |-> [k |-> "re", regex |-> regex]])

\* a call of a match function _buildregexmatch returned
RECURSIVE callregexfn(_, _)
callregexfn(fn, s) ==
    IF fn.k = "re" THEN rematch(fn.regex, s)
    ELSE callregexfn(fn.a, s) \/ callregexfn(fn.b, s)

\* pathutil.dirname(path)
dirname(path) ==
    LET i == RFind(path, "/", Len(path)) IN
    IF i = 0 THEN <<>> ELSE SubSeq(path, 1, i - 1)

\* pathutil.join(a, b)
pathjoin(a, b) == IF a = <<>> THEN b ELSE a \o <<"/">> \o b

\* _expandsubinclude(kindpats, root): [relmatchers |-> the <<prefix, path>>
\* of the subincludes (the matcher args are (newroot, '', [],
\* ['include:path']), newroot the directory of path), other |-> the rest]
RECURSIVE _expandsubinclude(_)
_expandsubinclude(kindpats) ==
    IF kindpats = <<>> THEN [relmatchers |-> <<>>, other |-> <<>>]
    ELSE LET kind == kindpats[1][1]
             pat == kindpats[1][2]
             source == kindpats[1][3]
             rest == _expandsubinclude(Tail(kindpats))
         IN IF kind = "subinclude"
            THEN LET path == pathjoin(dirname(source), pat)
                     newroot == dirname(path)
                     prefix == IF canonpath(newroot) # <<>>
                               THEN canonpath(newroot) \o <<"/">> ELSE <<>>
                 IN [relmatchers |-> <<<<prefix, path>>>> \o rest.relmatchers,
                     other |-> rest.other]
            ELSE [relmatchers |-> rest.relmatchers,
                  other |-> <<kindpats[1]>> \o rest.other]

\* ctx.getfileset(pat): the files the context gives for a fileset expression
getfileset(pat) ==
    IF pat = <<"x">> THEN {<<"a", "/", "b">>, <<"b">>} ELSE {}

\* _expandsets(kindpats, ctx, listsubrepos) with a context and no subrepos
RECURSIVE _expandsets(_)
_expandsets(kindpats) ==
    IF kindpats = <<>> THEN [fset |-> {}, other |-> <<>>]
    ELSE LET rest == _expandsets(Tail(kindpats))
         IN IF kindpats[1][1] = "set"
            THEN [fset |-> getfileset(kindpats[1][2]) \cup rest.fset,
                  other |-> rest.other]
            ELSE [fset |-> rest.fset, other |-> <<kindpats[1]>> \o rest.other]

\* _buildmatch(ctx, kindpats, globsuffix, listsubrepos, root): the closure
\* it returns: [matchfuncs |-> the functions present, in order, subincludes,
\* fset, mf |-> the function _buildregexmatch gave, err |-> it raised]
_buildmatch(kindpats, globsuffix) ==
    With(_expandsubinclude(kindpats), LAMBDA subs :
    With(_expandsets(subs.other), LAMBDA sets :
    With(IF sets.other # <<>> THEN _buildregexmatch(sets.other, globsuffix)
         ELSE [err |-> FALSE, regex |-> <<>>, fn |-> [k |-> "none"]], LAMBDA re :
       [matchfuncs |-> (IF subs.relmatchers # <<>> THEN <<"matchsubinclude">> ELSE <<>>)
                       \o (IF sets.fset # {} THEN <<"fset">> ELSE <<>>)
                       \o (IF sets.other # <<>> THEN <<"mf">> ELSE <<>>),
        subincludes |-> subs.relmatchers,
        fset |-> sets.fset,
        mf |-> re.fn,
        err |-> re.err])))

----------------------------------------------------------------------------
(* Calls of the functions the builder returns.  A call takes the dict
   `submatchers` of its closure and gives it back with the result. *)

\* an empty dict
EmptyDict == <<>>

\* the closure `im` of the matcher match(newroot, '', [], ['include:path'])
\* that matchsubinclude builds from its matcher args
innerclosure(path) ==
    _buildmatch(_donormalize(<<Pat("include", path)>>, "glob"), SuffixDir)

RECURSIVE callbuilt(_, _, _)

\* mf(f) of the inner matcher built from the args of `path`
callinner(path, f) == callbuilt(innerclosure(path), EmptyDict, f).ret

\* matchsubinclude(f), from the k-th subinclude on
RECURSIVE matchsubinclude(_, _, _, _)
matchsubinclude(subincludes, submatchers, f, k) ==
    IF k > Len(subincludes) THEN [ret |-> FALSE, submatchers |-> submatchers]
    ELSE LET prefix == subincludes[k][1]
             matcherargs == subincludes[k][2]
         IN IF startswith(f, prefix)
            THEN LET stored == IF prefix \in DOMAIN submatchers
                               THEN submatchers
                               ELSE submatchers @@ (prefix :> matcherargs)
                     mf == stored[prefix]
                 IN IF callinner(mf, Drop(f, Len(prefix)))
                    THEN [ret |-> TRUE, submatchers |-> stored]
                    ELSE matchsubinclude(subincludes, stored, f, k + 1)
            ELSE matchsubinclude(subincludes, submatchers, f, k + 1)

\* one of the functions in matchfuncs
callfunc(bm, name, submatchers, f) ==
    IF name = "matchsubinclude" THEN matchsubinclude(bm.subincludes, submatchers, f, 1)
    ELSE IF name = "fset" THEN [ret |-> f \in bm.fset, submatchers |-> submatchers]
    ELSE [ret |-> callregexfn(bm.mf, f), submatchers |-> submatchers]

\* a mutant of anyfuncs: all(mf(f) for mf in matchfuncs)
RECURSIVE allfuncs(_, _, _, _)
allfuncs(bm, submatchers, f, k) ==
    IF k > Len(bm.matchfuncs) THEN [ret |-> TRUE, submatchers |-> submatchers]
    ELSE With(callfunc(bm, bm.matchfuncs[k], submatchers, f), LAMBDA r :
             IF ~r.ret THEN r ELSE allfuncs(bm, r.submatchers, f, k + 1))

\* any(mf(f) for mf in matchfuncs), from the k-th function on
RECURSIVE anyfuncs(_, _, _, _)
anyfuncs(bm, submatchers, f, k) ==
    IF k > Len(bm.matchfuncs) THEN [ret |-> FALSE, submatchers |-> submatchers]
    ELSE With(callfunc(bm, bm.matchfuncs[k], submatchers, f), LAMBDA r :
             IF r.ret THEN r ELSE anyfuncs(bm, r.submatchers, f, k + 1))

\* the function _buildmatch returns: matchfuncs[0] when there is one,
\* else the lambda over all of them
callbuilt(bm, submatchers, f) ==
    IF Len(bm.matchfuncs) = 1 THEN callfunc(bm, bm.matchfuncs[1], submatchers, f)
    ELSE anyfuncs(bm, submatchers, f, 1)

----------------------------------------------------------------------------
(* The matcher object.  `a` is the arguments of match(): [patterns,
   include, exclude, exact]; root and cwd are the root of the tree. *)

\* whether the `elif patterns:` branch adds pm
haspm(a) ==
    /\ ~a.exact
    /\ a.patterns # <<>>
    /\ ~_kindpatsalwaysmatch(_donormalize(a.patterns, "glob"))

\* no closure
NoFn == [matchfuncs |-> <<>>]

\* the closures matcher.__init__ gets from _buildmatch: im for the
\* include, em for the exclude, pm for the patterns
closures(a) ==
    [im |-> IF a.include # <<>>
            THEN _buildmatch(_donormalize(a.include, "glob"), SuffixDir) ELSE NoFn,
     em |-> IF a.exclude # <<>>
            THEN _buildmatch(_donormalize(a.exclude, "glob"), SuffixDir) ELSE NoFn,
     pm |-> IF haspm(a)
            THEN _buildmatch(_donormalize(a.patterns, "glob"), SuffixEnd) ELSE NoFn]

\* the list matchfns of matcher.__init__
matchfnsof(a) ==
    (IF a.include # <<>> THEN <<"im">> ELSE <<>>)
    \o (IF a.exclude # <<>> THEN <<"em">> ELSE <<>>)
    \o (IF a.exact THEN <<"exact">> ELSE IF haspm(a) THEN <<"pm">> ELSE <<>>)

\* matcher.__init__: the object `self`; _fileset and _dirs are the
\* property caches, <<>> until the first use and <<value>> after it
matcherinit(a, self) ==
    With(_rootsanddirs(_donormalize(a.include, "glob")), LAMBDA inc :
    With(_donormalize(a.exclude, "glob"), LAMBDA exckp :
    With(_donormalize(a.patterns, "glob"), LAMBDA patkp :
    With(matchfnsof(a), LAMBDA matchfns :
       [cls |-> "matcher",
        _files |-> IF a.exact THEN a.patterns
                   ELSE IF "pm" \in Range(matchfns) THEN _explicitfiles(patkp) ELSE <<>>,
        _anypats |-> (a.include # <<>> \/ a.exclude # <<>>)
                     \/ ("pm" \in Range(matchfns) /\ _anypats(patkp)),
        _always |-> matchfns = <<>>,
        _includeroots |-> IF a.include # <<>> THEN inc.r ELSE {},
        _includedirs |-> IF a.include # <<>> THEN inc.d ELSE {},
        _excluderoots |-> IF a.exclude # <<>> /\ ~_anypats(exckp)
                          THEN Range(_roots(exckp)) ELSE {},
        matchfn |-> IF matchfns = <<>> THEN [k |-> "always"]
                    ELSE IF Len(matchfns) = 1
                    THEN [k |-> "fn", tag |-> matchfns[1], self |-> self]
                    ELSE [k |-> "all", fns |-> matchfns, self |-> self],
        bad |-> "bad",
        _fileset |-> <<>>,
        _dirs |-> <<>>,
        _path |-> <<>>,
        _matcher |-> ""]))))

\* the value of the property self._fileset, and the heap after the access
filesetof(o) == IF o._fileset # <<>> THEN o._fileset[1] ELSE Range(o._files)

usefileset(w, self) ==
    [w EXCEPT !.heap[self]._fileset = <<filesetof(w.heap[self])>>]

\* the value of the property self._dirs, and the heap after the access
dirsof(o) ==
    IF o._dirs # <<>> THEN o._dirs[1] ELSE dirs(filesetof(o)) \cup {Dot}

usedirs(w, self) ==
    [usefileset(w, self) EXCEPT !.heap[self]._dirs = <<dirsof(w.heap[self])>>]

\* matcher.exact(f)
exact(w, self, f) ==
    [ret |-> f \in filesetof(w.heap[self]), w |-> usefileset(w, self)]

\* matcher.files(), anypats(), always()
files(o) == o._files

anypats(o) == o._anypats

always(o) == o._always

\* a mutant of isexact: exact is one of the functions matchfn calls
isexact_amongfns(o, self) ==
    \/ o.matchfn = [k |-> "fn", tag |-> "exact", self |-> self]
    \/ o.matchfn.k = "all" /\ "exact" \in Range(o.matchfn.fns)

\* a mutant of isexact: no matcher is exact
isexact_never(o, self) == FALSE

\* matcher.isexact(): self.matchfn == self.exact, the bound methods of the
\* same object
isexact(o, self) == o.matchfn = [k |-> "fn", tag |-> "exact", self |-> self]

\* matcher.prefix()
prefix(o, self) == ~always(o) /\ ~isexact(o, self) /\ ~anypats(o)

\* a mutant of callone: the exclude function is not negated
callone_notnegated(w, tag, self, f) ==
    IF tag = "exact" THEN exact(w, self, f)
    ELSE With(callbuilt(w.fns[tag], w.sub[tag], f), LAMBDA r :
             [ret |-> r.ret, w |-> [w EXCEPT !.sub[tag] = r.submatchers]])

\* one function of the list matchfns: im, lambda f: not em(f), self.exact
\* (bound to the object that was constructed) or pm
callone(w, tag, self, f) ==
    IF tag = "exact" THEN exact(w, self, f)
    ELSE With(callbuilt(w.fns[tag], w.sub[tag], f), LAMBDA r :
             [ret |-> IF tag = "em" THEN ~r.ret ELSE r.ret,
              w |-> [w EXCEPT !.sub[tag] = r.submatchers]])

\* the function m(f) of matcher.__init__ over several matchfns, from the
\* k-th on
RECURSIVE callall(_, _, _, _, _)
callall(w, fns, self, f, k) ==
    IF k > Len(fns) THEN [ret |-> TRUE, w |-> w]
    ELSE With(callone(w, fns[k], self, f), LAMBDA r :
             IF ~r.ret THEN r ELSE callall(r.w, fns, self, f, k + 1))

\* self.matchfn(f) of the object `id` (matcher.__call__ is the same call)
RECURSIVE callmatchfn(_, _, _)
callmatchfn(w, id, f) ==
    LET m == w.heap[id].matchfn IN
    IF m.k = "always" THEN [ret |-> TRUE, w |-> w]
    ELSE IF m.k = "fn" THEN callone(w, m.tag, m.self, f)
    ELSE IF m.k = "all" THEN callall(w, m.fns, m.self, f, 1)
    ELSE callmatchfn(w, m.matcher, m.path \o <<"/">> \o f)

\* the include test of visitdir that prunes dir
notincluded(o, dir) ==
    /\ (o._includeroots # {} \/ o._includedirs # {})
    /\ Dot \notin o._includeroots
    /\ dir \notin o._includeroots
    /\ dir \notin o._includedirs
    /\ ~\E parent \in Range(finddirs(dir)) : parent \in o._includeroots

\* a mutant of infiles: an empty file set is not taken for "everything"
infiles_nonempty(o, dir) ==
    \/ Dot \in filesetof(o)
    \/ dir \in filesetof(o)
    \/ dir \in dirsof(o)
    \/ \E parentdir \in Range(finddirs(dir)) : parentdir \in filesetof(o)

\* the last expression of visitdir
infiles(o, dir) ==
    \/ filesetof(o) = {}
    \/ Dot \in filesetof(o)
    \/ dir \in filesetof(o)
    \/ dir \in dirsof(o)
    \/ \E parentdir \in Range(finddirs(dir)) : parentdir \in filesetof(o)

\* matcher.visitdir(dir) and subdirmatcher.visitdir(dir): "all", "True" or
\* "False", and the heap with the property caches it filled
RECURSIVE visitdir(_, _, _)
visitdir(w, self, dir) ==
    LET o == w.heap[self] IN
    IF o.cls = "subdirmatcher"
    THEN visitdir(w, o._matcher,
                  IF dir = Dot THEN o._path ELSE o._path \o <<"/">> \o dir)
    ELSE IF prefix(o, self) /\ dir \in filesetof(o)
    THEN [ret |-> "all", w |-> usefileset(w, self)]
    ELSE LET w1 == IF prefix(o, self) THEN usefileset(w, self) ELSE w IN
    IF dir \in o._excluderoots THEN [ret |-> "False", w |-> w1]
    ELSE IF notincluded(o, dir) THEN [ret |-> "False", w |-> w1]
    ELSE [ret |-> IF infiles(o, dir) THEN "True" ELSE "False",
          w |-> IF filesetof(o) = {} \/ Dot \in filesetof(o) \/ dir \in filesetof(o)
                THEN usefileset(w1, self) ELSE usedirs(w1, self)]

\* badmatch(match, badfn): copy.copy(match) with its bad replaced
badmatch(o, badfn) == [o EXCEPT !.bad = badfn]

\* subdirmatcher.__init__(path, matcher) for the matcher `mid` of the heap
RECURSIVE subfiles(_, _)
subfiles(path, fs) ==
    IF fs = <<>> THEN <<>>
    ELSE IF startswith(fs[1], path \o <<"/">>)
    THEN <<Drop(fs[1], Len(path) + 1)>> \o subfiles(path, Tail(fs))
    ELSE subfiles(path, Tail(fs))

\* a mutant of subdirmatcherinit: matchfn is the parent's, the path is not
\* prepended
subdirmatcherinit_nopath(path, m, mid) ==
    [cls |-> "subdirmatcher",
     _files |-> subfiles(path, m._files),
     _anypats |-> m._anypats,
     _always |-> IF prefix(m, mid)
                 THEN \E i \in 1..Len(m._files) : m._files[i] = path
                 ELSE m._always,
     _includeroots |-> {},
     _includedirs |-> {},
     _excluderoots |-> {},
     matchfn |-> m.matchfn,
     bad |-> "bad",
     _fileset |-> <<>>,
     _dirs |-> <<>>,
     _path |-> path,
     _matcher |-> mid]

subdirmatcherinit(path, m, mid) ==
    [cls |-> "subdirmatcher",
     _files |-> subfiles(path, m._files),
     _anypats |-> m._anypats,
     _always |-> IF prefix(m, mid)
                 THEN \E i \in 1..Len(m._files) : m._files[i] = path
                 ELSE m._always,
     _includeroots |-> {},
     _includedirs |-> {},
     _excluderoots |-> {},
     matchfn |-> [k |-> "sub", path |-> path, matcher |-> mid],
     bad |-> "bad",
     _fileset |-> <<>>,
     _dirs |-> <<>>,
     _path |-> path,
     _matcher |-> mid]

----------------------------------------------------------------------------
(* The state: one matcher built by match(), the matchers derived from it,
   and the calls made on them *)

VARIABLES
    args,       \* the arguments match() was called with
    heap,       \* the matcher objects: "m" built by match(), "bad" its
                \* badmatch copy, "sub" a subdirmatcher of it
    fns,        \* the closures im, em, pm that m's matchfn calls
    sub,        \* the dict submatchers of each closure im, em, pm
    ret,        \* the last call: [op, obj, arg, val]
    thr,        \* the threads inside matchsubinclude: [pc, f, k, mf, val]
    stores,     \* how many times submatchers[prefix] was assigned
    kps,        \* the kindpats given to _buildregexmatch
    rx,         \* what _buildregexmatch returned (or that it raised)
    inp,        \* what readpatternfile or _donormalize is called with
    res,        \* what it returned (or that it raised)
    warned      \* the warnings it gave to warn

vars == <<args, heap, fns, sub, ret, thr, stores, kps, rx, inp, res, warned>>

\* the state of the threads, and of the direct calls of _buildregexmatch
concvars == <<thr, stores>>

splitvars == <<kps, rx>>

\* the state of the direct calls of readpatternfile and _donormalize
readvars == <<inp, res, warned>>

\* the longest path, in components, and the longest lists of patterns
MaxDepth == 2

MaxPats == 2

MaxFiles == 2

\* the names of the files and directories of the tree
Names == {<<"a">>, <<"b">>}

\* the paths of at most n components
RECURSIVE PathsUpTo(_)
PathsUpTo(n) ==
    IF n = 0 THEN {}
    ELSE Names \cup PathsUpTo(n - 1)
         \cup {d \o <<"/">> \o f : d \in PathsUpTo(n - 1), f \in Names}

Paths == PathsUpTo(MaxDepth)

Dirs == {Dot} \cup Paths

\* the patterns given to match() as patterns, include or exclude
Patterns ==
    <<Pat("path", <<"a">>), Pat("path", <<"a", "/", "b">>),
      Pat("rootfilesin", <<"a">>), Pat("glob", <<"a", "/", "*">>),
      <<"*", "*">>, Pat("relglob", <<"b">>),
      Pat("re", <<"b", "/", "a">>), Pat("relre", <<"b">>),
      Pat("relpath", <<"b">>), Pat("glob", <<>>)>>

\* the file names given to match() when exact
Files == <<<<"a">>, <<"a", "/", "b">>, <<"b", "/", "a">>>>

\* the elements of list at the indexes of S, in the order of list
RECURSIVE Pick(_, _, _)
Pick(list, S, k) ==
    IF k > Len(list) THEN <<>>
    ELSE (IF k \in S THEN <<list[k]>> ELSE <<>>) \o Pick(list, S, k + 1)

\* the sublists of at most n elements of list (in the order of list)
ListsUpTo(list, n) ==
    {Pick(list, S, 1) : S \in {T \in SUBSET (1..Len(list)) : Cardinality(T) <= n}}

\* the arguments of match(): at most MaxPats patterns in all when not
\* exact, at most MaxFiles file names when exact
Args ==
    UNION {UNION {{[patterns |-> p, include |-> i, exclude |-> e, exact |-> FALSE] :
                      e \in ListsUpTo(Patterns, MaxPats - Len(p) - Len(i))} :
                  i \in ListsUpTo(Patterns, MaxPats - Len(p))} :
           p \in ListsUpTo(Patterns, MaxPats)}
    \cup {[patterns |-> p, include |-> i, exclude |-> e, exact |-> TRUE] :
             p \in ListsUpTo(Files, MaxFiles),
             i \in ListsUpTo(<<Pat("path", <<"a">>)>>, 1),
             e \in ListsUpTo(<<Pat("path", <<"a", "/", "b">>)>>, 1)}
    \cup {[patterns |-> <<Patterns[k]>>, include |-> <<Pat("path", <<"a">>)>>,
           exclude |-> <<e>>, exact |-> FALSE] :
             k \in 1..Len(Patterns), e \in {Pat("path", <<"a", "/", "b">>), <<"*", "*">>}}

NoDicts == [im |-> EmptyDict, em |-> EmptyDict, pm |-> EmptyDict]

NoCall == [op |-> "none", obj |-> "", arg |-> <<>>, val |-> ""]

\* a result as text
Py(b) == IF b THEN "True" ELSE "False"

\* the heap and the dicts together, as the calls take them
World == [heap |-> heap, fns |-> fns, sub |-> sub]

\* the names of the objects of the heap
Objects == {"m", "bad", "sub"}

\* the threads that call the matcher
Threads == {"t1", "t2"}

\* a thread outside the matcher
Idle == [pc |-> "idle", f |-> <<>>, k |-> 0, mf |-> <<>>, val |-> ""]

\* no thread is in the matcher, and _buildregexmatch is not called directly
NoThreads ==
    /\ thr = [t \in Threads |-> Idle]
    /\ stores = EmptyDict

NoSplit ==
    /\ kps = <<>>
    /\ rx = [k |-> "none"]

\* readpatternfile and _donormalize are not called directly
NoRead ==
    /\ inp = [k |-> "none"]
    /\ res = [k |-> "none"]
    /\ warned = <<>>

\* m = match(root, cwd, patterns, include, exclude, exact=exact) with the
\* arguments a
Construct(a) ==
    /\ args = a
    /\ heap = ("m" :> matcherinit(a, "m"))
    /\ fns = closures(a)
    /\ sub = NoDicts
    /\ ret = NoCall

Init ==
    /\ \E a \in Args : Construct(a)
    /\ NoThreads
    /\ NoSplit
    /\ NoRead

\* obj(f): matcher.__call__
Call(id, f) ==
    /\ ret = NoCall
    /\ id \in DOMAIN heap
    /\ \E r \in {callmatchfn(World, id, f)} :
        /\ heap' = r.w.heap
        /\ sub' = r.w.sub
        /\ ret' = [op |-> "call", obj |-> id, arg |-> f, val |-> Py(r.ret)]
        /\ UNCHANGED <<args, fns, concvars, splitvars, readvars>>

\* obj.visitdir(dir)
VisitDir(id, dir) ==
    /\ ret = NoCall
    /\ id \in DOMAIN heap
    /\ \E r \in {visitdir(World, id, dir)} :
        /\ heap' = r.w.heap
        /\ ret' = [op |-> "visitdir", obj |-> id, arg |-> dir, val |-> r.ret]
        /\ UNCHANGED <<args, fns, sub, concvars, splitvars, readvars>>

\* obj.exact(f)
Exact(id, f) ==
    /\ ret = NoCall
    /\ id \in DOMAIN heap
    /\ \E r \in {exact(World, id, f)} :
        /\ heap' = r.w.heap
        /\ ret' = [op |-> "exact", obj |-> id, arg |-> f, val |-> Py(r.ret)]
        /\ UNCHANGED <<args, fns, sub, concvars, splitvars, readvars>>

\* the caller takes the result of the call
Return ==
    /\ ret # NoCall
    /\ ret' = NoCall
    /\ UNCHANGED <<args, heap, fns, sub, concvars, splitvars, readvars>>

Next ==
    \/ Return
    \/ \E f \in Paths : Call("m", f)
    \/ \E d \in Dirs : VisitDir("m", d)
    \/ \E f \in Paths : Exact("m", f)

Spec == Init /\ [][Next]_vars

----------------------------------------------------------------------------
(* The matchers derived from m: its badmatch copy and a subdirmatcher *)

\* the arguments of the matchers that are copied or narrowed: a list of
\* files, at most one pattern, or a directory and a path below it
DerivedArgs ==
    {a \in Args : a.exact \/ Len(a.patterns) + Len(a.include) + Len(a.exclude) <= 1}
    \cup {[patterns |-> <<Pat("path", <<"a">>), Pat("path", <<"a", "/", "b">>)>>,
           include |-> <<>>, exclude |-> <<>>, exact |-> FALSE]}

InitDerived ==
    /\ \E a \in DerivedArgs : Construct(a)
    /\ NoThreads
    /\ NoSplit
    /\ NoRead

\* heap["bad"] = badmatch(m, badfn)
BadMatch ==
    /\ ret = NoCall
    /\ "bad" \notin DOMAIN heap
    /\ heap' = heap @@ ("bad" :> badmatch(heap["m"], "badfn"))
    /\ UNCHANGED <<args, fns, sub, ret, concvars, splitvars, readvars>>

\* heap["sub"] = subdirmatcher(path, heap[mid])
SubdirMatcher(path, mid) ==
    /\ ret = NoCall
    /\ mid \in DOMAIN heap
    /\ "sub" \notin DOMAIN heap
    /\ heap' = heap @@ ("sub" :> subdirmatcherinit(path, heap[mid], mid))
    /\ UNCHANGED <<args, fns, sub, ret, concvars, splitvars, readvars>>

\* obj.matchfn(f)
MatchFn(id, f) ==
    /\ ret = NoCall
    /\ id \in DOMAIN heap
    /\ \E r \in {callmatchfn(World, id, f)} :
        /\ heap' = r.w.heap
        /\ sub' = r.w.sub
        /\ ret' = [op |-> "matchfn", obj |-> id, arg |-> f, val |-> Py(r.ret)]
        /\ UNCHANGED <<args, fns, concvars, splitvars, readvars>>

NextDerived ==
    \/ Return
    \/ BadMatch
    \/ \E path \in Names, mid \in {"m", "bad"} : SubdirMatcher(path, mid)
    \/ \E id \in Objects, f \in Paths : Call(id, f)
    \/ \E id \in Objects, f \in Paths : MatchFn(id, f)
    \/ \E id \in Objects, d \in Dirs : VisitDir(id, d)

SpecDerived == InitDerived /\ [][NextDerived]_vars

----------------------------------------------------------------------------
(* The caller keeps the list it passed as patterns with exact=True, which
   __init__ stores as self._files without a copy, and gets the same list
   from files(); it can modify it *)

\* the longest list the caller makes of it
MaxListLen == 3

\* the matchers built from a list of files
ListArgs == {a \in Args : a.exact}

InitList ==
    /\ \E a \in ListArgs : Construct(a)
    /\ NoThreads
    /\ NoSplit
    /\ NoRead

\* obj.files()
FilesCall(id) ==
    /\ ret = NoCall
    /\ id \in DOMAIN heap
    /\ ret' = [op |-> "files", obj |-> id, arg |-> <<>>, val |-> files(heap[id])]
    /\ UNCHANGED <<args, heap, fns, sub, concvars, splitvars, readvars>>

\* patterns.append(f), or m.files().append(f): the list is self._files
ListAppend(f) ==
    /\ ret = NoCall
    /\ Len(heap["m"]._files) < MaxListLen
    /\ heap' = [heap EXCEPT !["m"]._files = Append(@, f)]
    /\ UNCHANGED <<args, fns, sub, ret, concvars, splitvars, readvars>>

\* del patterns[0], or del m.files()[0]
ListDelete ==
    /\ ret = NoCall
    /\ heap["m"]._files # <<>>
    /\ heap' = [heap EXCEPT !["m"]._files = Tail(@)]
    /\ UNCHANGED <<args, fns, sub, ret, concvars, splitvars, readvars>>

NextList ==
    \/ Return
    \/ \E f \in Paths : Call("m", f)
    \/ \E d \in Dirs : VisitDir("m", d)
    \/ \E f \in Paths : Exact("m", f)
    \/ FilesCall("m")
    \/ \E f \in Names : ListAppend(f)
    \/ ListDelete

SpecList == InitList /\ [][NextList]_vars

----------------------------------------------------------------------------
(* Matchers whose include holds subinclude: and set: patterns *)

\* the longest include list of these matchers
MaxSubPats == 3

\* the patterns of the include list: the pattern files a/x and a/y are in
\* the same directory
SubPatterns ==
    <<Pat("subinclude", <<"a", "/", "x">>), Pat("subinclude", <<"a", "/", "y">>),
      Pat("subinclude", <<"b", "/", "x">>), Pat("subinclude", <<"x">>),
      Pat("set", <<"x">>), Pat("glob", <<"a", "/", "*">>), Pat("path", <<"b">>)>>

SubArgs ==
    {[patterns |-> <<>>, include |-> i, exclude |-> <<>>, exact |-> FALSE] :
        i \in ListsUpTo(SubPatterns, MaxSubPats) \ {<<>>}}

InitSub ==
    /\ \E a \in SubArgs : Construct(a)
    /\ NoThreads
    /\ NoSplit
    /\ NoRead

NextSub ==
    \/ Return
    \/ \E f \in Paths : Call("m", f)

SpecSub == InitSub /\ [][NextSub]_vars

----------------------------------------------------------------------------
(* Threads that call one matcher whose include holds only subinclude:
   patterns: its matchfn is the closure matchsubinclude.  A thread is
   between two statements of matchsubinclude; the steps are the statements
   that read or write the dict submatchers, and the construction of the
   inner matcher between them. *)

ConcArgs ==
    {[patterns |-> <<>>, include |-> i, exclude |-> <<>>, exact |-> FALSE] :
        i \in ListsUpTo(SubSeq(SubPatterns, 1, 4), MaxPats) \ {<<>>}}

InitConc ==
    /\ \E a \in ConcArgs : Construct(a)
    /\ NoThreads
    /\ NoSplit
    /\ NoRead

\* the subincludes of the closure, and the prefix the thread t is at
subincludes == fns.im.subincludes

prefixof(t) == subincludes[thr[t].k][1]

\* the for loop of matchsubinclude from entry k: the first entry whose
\* prefix starts f, 0 when the loop ends
RECURSIVE nextprefix(_, _)
nextprefix(f, k) ==
    IF k > Len(subincludes) THEN 0
    ELSE IF startswith(f, subincludes[k][1]) THEN k
    ELSE nextprefix(f, k + 1)

\* the thread goes on with the loop at entry k, or returns False
loopfrom(t, f, k) ==
    IF nextprefix(f, k) = 0
    THEN [Idle EXCEPT !.val = "False"]
    ELSE [pc |-> "get", f |-> f, k |-> nextprefix(f, k), mf |-> <<>>, val |-> ""]

\* the thread t calls m(f)
Enter(t, f) ==
    /\ thr[t].pc = "idle"
    /\ thr' = [thr EXCEPT ![t] = loopfrom(t, f, 1)]
    /\ UNCHANGED <<args, heap, fns, sub, ret, stores, splitvars, readvars>>

\* mf = submatchers.get(prefix); if mf is None
Get(t) ==
    /\ thr[t].pc = "get"
    /\ thr' = [thr EXCEPT ![t] =
                  IF prefixof(t) \in DOMAIN sub.im
                  THEN [@ EXCEPT !.pc = "call", !.mf = sub.im[prefixof(t)]]
                  ELSE [@ EXCEPT !.pc = "build"]]
    /\ UNCHANGED <<args, heap, fns, sub, ret, stores, splitvars, readvars>>

\* mf = match of the matcherargs
Build(t) ==
    /\ thr[t].pc = "build"
    /\ thr' = [thr EXCEPT ![t] = [@ EXCEPT !.pc = "store",
                                             !.mf = subincludes[thr[t].k][2]]]
    /\ UNCHANGED <<args, heap, fns, sub, ret, stores, splitvars, readvars>>

\* submatchers[prefix] = mf
Store(t) ==
    /\ thr[t].pc = "store"
    /\ sub' = [sub EXCEPT !.im = (prefixof(t) :> thr[t].mf) @@ @]
    /\ stores' = (prefixof(t) :> (IF prefixof(t) \in DOMAIN stores
                                  THEN stores[prefixof(t)] + 1 ELSE 1)) @@ stores
    /\ thr' = [thr EXCEPT ![t] = [@ EXCEPT !.pc = "call"]]
    /\ UNCHANGED <<args, heap, fns, ret, splitvars, readvars>>

\* if mf(f[len(prefix):]): return True
CallMf(t) ==
    /\ thr[t].pc = "call"
    /\ thr' = [thr EXCEPT ![t] =
                  IF callinner(thr[t].mf, Drop(thr[t].f, Len(prefixof(t))))
                  THEN [Idle EXCEPT !.val = "True"]
                  ELSE loopfrom(t, thr[t].f, thr[t].k + 1)]
    /\ UNCHANGED <<args, heap, fns, sub, ret, stores, splitvars, readvars>>

NextConc ==
    \/ \E t \in Threads, f \in Paths : Enter(t, f)
    \/ \E t \in Threads : Get(t)
    \/ \E t \in Threads : Build(t)
    \/ \E t \in Threads : Store(t)
    \/ \E t \in Threads : CallMf(t)

SpecConc == InitConc /\ [][NextConc]_vars

----------------------------------------------------------------------------
(* Direct calls of _buildregexmatch on lists of long patterns *)

\* the longest list of kindpats
MaxSplit == 3

\* patterns with long names: the regexps of the first three have 9988
\* characters, the fourth 19960, the fifth 29948 and the last 9
SplitPatterns ==
    <<Pat("path", <<LongChar>>), Pat("relpath", <<LongChar, "a">>),
      Pat("glob", <<LongChar, "/", "*">>), Pat("re", <<LongChar, LongChar>>),
      Pat("path", <<LongChar, LongChar, LongChar>>), Pat("path", <<"b">>)>>

\* the strings the match function is called with
SplitPaths ==
    {<<LongChar>>, <<LongChar, "a">>, <<LongChar, "/", "a">>, <<LongChar, LongChar>>,
     <<LongChar, LongChar, "a">>, <<"b">>, <<"b", "/", "a">>, <<"a">>}

InitSplit ==
    /\ \E a \in {[patterns |-> <<>>, include |-> <<>>, exclude |-> <<>>,
                    exact |-> FALSE]} : Construct(a)
    /\ NoThreads
    /\ kps \in {_donormalize(l, "glob") :
                    l \in ListsUpTo(SplitPatterns, MaxSplit) \ {<<>>}}
    /\ rx = [k |-> "none"]
    /\ NoRead

\* regex, mf = _buildregexmatch(kindpats, '$'), or OverflowError
BuildRegex ==
    /\ rx.k = "none"
    /\ \E r \in {_buildregexmatch(kps, SuffixEnd)} :
           rx' = [k |-> "built", err |-> r.err, regex |-> r.regex, fn |-> r.fn]
    /\ UNCHANGED <<args, heap, fns, sub, ret, concvars, kps, readvars>>

\* mf(s)
CallRegex(s) ==
    /\ rx.k = "built"
    /\ ~rx.err
    /\ ret = NoCall
    /\ ret' = [op |-> "mf", obj |-> "", arg |-> s, val |-> Py(callregexfn(rx.fn, s))]
    /\ UNCHANGED <<args, heap, fns, sub, concvars, splitvars, readvars>>

NextSplit ==
    \/ BuildRegex
    \/ \E s \in SplitPaths : CallRegex(s)
    \/ Return

SpecSplit == InitSplit /\ [][NextSplit]_vars

----------------------------------------------------------------------------
(* Direct calls of readpatternfile on the lines of a pattern file *)

\* the longest pattern file, in lines
MaxLines == 3

\* the line 'syntax: name'
SyntaxLine(name) == <<"s", "y", "n", "t", "a", "x", ":", " ">> \o name

\* the names after 'syntax:': the five of the table and an unknown one
SyntaxNames ==
    {KindText.re, <<"r", "e", "g", "e", "x", "p">>, KindText.glob,
     KindText.include, KindText.subinclude, <<"f", "o", "o">>}

\* lines with no kind before the text
PlainLines ==
    {<<"a">>, <<"*", ".", "c">>, <<"i", "n", "c", "l", "u", "d", "e", "d">>}

\* lines with a kind, or a name of the table, before the text
KindLines ==
    {Pat("glob", <<"a">>), Pat("re", <<"a">>), Pat("path", <<"a">>),
     Pat("rootfilesin", <<"a">>), Pat("relglob", <<"a">>), Pat("include", <<"a">>),
     <<"r", "e", "g", "e", "x", "p", ":", "a">>}

\* the lines of the pattern files, the empty line among them
FileLines ==
    {SyntaxLine(n) : n \in SyntaxNames} \cup PlainLines \cup KindLines \cup {<<>>}

\* the sequences of at most n elements of S
RECURSIVE SeqsUpTo(_, _)
SeqsUpTo(S, n) ==
    IF n = 0 THEN {<<>>}
    ELSE SeqsUpTo(S, n - 1)
         \cup {Append(q, x) : q \in {r \in SeqsUpTo(S, n - 1) : Len(r) = n - 1}, x \in S}

InitRead ==
    /\ \E a \in {[patterns |-> <<>>, include |-> <<>>, exclude |-> <<>>,
                    exact |-> FALSE]} : Construct(a)
    /\ NoThreads
    /\ NoSplit
    /\ \E lines \in SeqsUpTo(FileLines, MaxLines), warn \in BOOLEAN :
           inp = [k |-> "file", lines |-> lines, warn |-> warn]
    /\ res = [k |-> "none"]
    /\ warned = <<>>

\* patterns = readpatternfile(filepath, warn) of the file with these lines
ReadPatternFile ==
    /\ inp.k = "file"
    /\ res.k = "none"
    /\ res' = [k |-> "patterns",
               v |-> readlines(inp.lines, <<"r", "e", "l", "r", "e", ":">>)]
    /\ warned' = IF inp.warn THEN readwarnings(inp.lines) ELSE <<>>
    /\ UNCHANGED <<args, heap, fns, sub, ret, concvars, splitvars, inp>>

NextRead == ReadPatternFile

SpecRead == InitRead /\ [][NextRead]_vars

----------------------------------------------------------------------------
(* Direct calls of _donormalize on lists of patterns, some of files that
   cannot be read (the file n is not in the tree) *)

\* the longest list of patterns
MaxNorm == 3

NormPatterns ==
    {Pat("path", <<"a">>), Pat("glob", <<"b">>), Pat("re", <<"b">>), <<"b">>,
     Pat("include", <<"a", "/", "x">>), Pat("include", <<"b", "/", "x">>),
     Pat("include", <<"b", "/", "y">>), Pat("include", <<"n">>),
     Pat("listfile", <<"x">>), Pat("listfile", <<"n">>),
     Pat("listfile0", <<"y">>), Pat("listfile0", <<"n">>)}

InitNorm ==
    /\ \E a \in {[patterns |-> <<>>, include |-> <<>>, exclude |-> <<>>,
                    exact |-> FALSE]} : Construct(a)
    /\ NoThreads
    /\ NoSplit
    /\ \E patterns \in SeqsUpTo(NormPatterns, MaxNorm), warn \in BOOLEAN :
           inp = [k |-> "patterns", patterns |-> patterns, warn |-> warn]
    /\ res = [k |-> "none"]
    /\ warned = <<>>

\* kindpats = _donormalize(patterns, 'glob', root, cwd, auditor, warn), or
\* error.Abort
DoNormalize ==
    /\ inp.k = "patterns"
    /\ res.k = "none"
    /\ res' = IF _donormalize_aborts(inp.patterns, "glob") THEN [k |-> "Abort"]
              ELSE [k |-> "kindpats", v |-> _donormalize(inp.patterns, "glob")]
    /\ warned' = IF inp.warn THEN _donormalize_warned(inp.patterns, "glob") ELSE <<>>
    /\ UNCHANGED <<args, heap, fns, sub, ret, concvars, splitvars, inp>>

NextNorm == DoNormalize

SpecNorm == InitNorm /\ [][NextNorm]_vars

----------------------------------------------------------------------------
(* The claims about a matcher built by match() *)

\* the ancestor directories of a path, "." among them
Ancestors(p) == Range(finddirs(p)) \cup {Dot}

\* p is dir or below it
Under(p, dir) == dir = Dot \/ p = dir \/ startswith(p, dir \o <<"/">>)

\* the glob '**'
StarStar == <<"*", "*">>

\* C1: the pruning contract: when m(p) is true, m.visitdir(d) is true or
\* "all" for every ancestor directory d of p, "." among them.
C1_PruningContract ==
    (ret.op = "call" /\ ret.obj = "m" /\ ret.val = "True")
        => \A d \in Ancestors(ret.arg) :
               visitdir(World, "m", d).ret \in {"True", "all"}

\* C3 as stated: always() is true exactly when files() is empty, every
\* path matches and visitdir gives "all" for every directory.
C3_AlwaysIffAll ==
    ret.op = "visitdir"
        => (always(heap["m"])
               <=> /\ files(heap["m"]) = <<>>
                   /\ \A p \in Paths : callmatchfn(World, "m", p).ret
                   /\ \A d \in Dirs : visitdir(World, "m", d).ret = "all")

\* C3 amended: when always() is true, files() is empty, every path matches
\* and visitdir gives True (not "all") for every directory.
C3_AlwaysImplies ==
    always(heap["m"])
        => /\ files(heap["m"]) = <<>>
           /\ \A p \in Paths : callmatchfn(World, "m", p).ret
           /\ \A d \in Dirs : visitdir(World, "m", d).ret = "True"

C3_Witness ==
    /\ always(heap["m"])
    /\ ret.op = "visitdir"
    /\ ret.arg = <<"a", "/", "b">>
    /\ ret.val = "True"

\* C4 as stated: with exclude=['**'], visitdir gives False for every
\* directory.
C4_ExcludeAllPrunes ==
    (args.exclude = <<StarStar>> /\ ret.op = "visitdir") => ret.val = "False"

\* the matcher of the same arguments without the exclude
WithoutExclude ==
    [heap |-> ("m" :> matcherinit([args EXCEPT !.exclude = <<>>], "m")),
     fns |-> closures([args EXCEPT !.exclude = <<>>]),
     sub |-> NoDicts]

\* C4 amended: with exclude=['**'] no path matches, but the exclude prunes
\* nothing: visitdir gives False only where the matcher without the
\* exclude gives False, and True elsewhere (never "all"); with no include
\* and no patterns it gives True for every directory.
C4_ExcludeAllNotPruned ==
    args.exclude = <<StarStar>>
        => /\ heap["m"]._excluderoots = {}
           /\ ret.op = "call" => ret.val = "False"
           /\ ret.op = "visitdir" =>
                  ret.val = (IF visitdir(WithoutExclude, "m", ret.arg).ret = "False"
                             THEN "False" ELSE "True")
           /\ (ret.op = "visitdir" /\ args.include = <<>> /\ args.patterns = <<>>)
                  => ret.val = "True"

C4_Witness ==
    /\ args.exclude = <<StarStar>>
    /\ args.include # <<>>
    /\ ret.op = "visitdir"
    /\ ret.val = "True"

\* the predicate of one group of patterns alone: what the function built
\* from its normalized patterns gives
GroupPred(patterns, globsuffix, p) ==
    callbuilt(_buildmatch(_donormalize(patterns, "glob"), globsuffix), EmptyDict, p).ret

\* C5: a matcher with include I, exclude E and (non-exact) patterns P
\* matches p exactly when I's predicate accepts p, E's does not and P's
\* accepts p, a group that was not given counting as true; a path under an
\* exclude root is never matched.
C5_IncludeAndNotExclude ==
    (ret.op = "call" /\ ret.obj = "m" /\ ~args.exact)
        => /\ ret.val = Py(/\ args.include # <<>> => GroupPred(args.include, SuffixDir, ret.arg)
                           /\ args.exclude # <<>> => ~GroupPred(args.exclude, SuffixDir, ret.arg)
                           /\ args.patterns # <<>> => GroupPred(args.patterns, SuffixEnd, ret.arg))
           /\ (\E r \in heap["m"]._excluderoots : Under(ret.arg, r)) => ret.val = "False"

C5_Witness ==
    /\ args.include # <<>> /\ args.exclude # <<>> /\ args.patterns # <<>>
    /\ ~args.exact
    /\ ret.op = "call"
    /\ ret.val = "False"
    /\ \E r \in heap["m"]._includeroots : Under(ret.arg, r)
    /\ \E r \in heap["m"]._excluderoots : Under(ret.arg, r)
    /\ GroupPred(args.patterns, SuffixEnd, ret.arg)

----------------------------------------------------------------------------
(* The claims about the derived matchers *)

\* p is below the directory dir
Below(p, dir) == dir = Dot \/ startswith(p, dir \o <<"/">>)

C10_SubdirRoundTrip ==
    (ret.op \in {"call", "matchfn"} /\ ret.obj = "sub")
        => ret.val = Py(callmatchfn(World, heap["sub"]._matcher,
                                    heap["sub"]._path \o <<"/">> \o ret.arg).ret)

C10_Witness ==
    /\ ret.op = "matchfn"
    /\ ret.obj = "sub"
    /\ ret.val = "True"
    /\ \E p \in Paths : ~callmatchfn(World, "sub", p).ret
    /\ ~callmatchfn(World, heap["sub"]._matcher, ret.arg).ret


----------------------------------------------------------------------------
(* The claims about one group of patterns *)

\* the three kinds of patterns of the include group, as _buildmatch
\* separates them: subincludes, sets and the others
GroupSubincludes == _expandsubinclude(_donormalize(args.include, "glob")).relmatchers

GroupSets == _expandsets(_expandsubinclude(_donormalize(args.include, "glob")).other)

\* the three predicates of the group on the path p
SubPred(p) == matchsubinclude(GroupSubincludes, EmptyDict, p, 1).ret

SetPred(p) == p \in GroupSets.fset

RegexPred(p) == rematch(regextext(GroupSets.other, SuffixDir), p)

\* C6 as stated: the function of a group is the AND of the predicates
\* that are present.
C6_AllOf ==
    ret.op = "call"
        => ret.val = Py(/\ GroupSubincludes # <<>> => SubPred(ret.arg)
                        /\ GroupSets.fset # {} => SetPred(ret.arg)
                        /\ GroupSets.other # <<>> => RegexPred(ret.arg))

\* C6 amended: the function of a group is the OR of the predicates that
\* are present: a path matches when at least one of them accepts it.
C6_AnyOf ==
    ret.op = "call"
        => ret.val = Py(\/ GroupSubincludes # <<>> /\ SubPred(ret.arg)
                        \/ GroupSets.fset # {} /\ SetPred(ret.arg)
                        \/ GroupSets.other # <<>> /\ RegexPred(ret.arg))

C6_Witness ==
    /\ ret.op = "call"
    /\ ret.val = "True"
    /\ GroupSubincludes # <<>> /\ GroupSets.fset # {} /\ GroupSets.other # <<>>
    /\ ~SubPred(ret.arg)
    /\ SetPred(ret.arg)
    /\ ~RegexPred(ret.arg)

\* C7: with only subinclude patterns, a path is matched exactly when some
\* subinclude has a prefix that starts the path and its own inner matcher,
\* built from its own file, matches the rest of the path.
C7_OwnInnerMatcher ==
    (ret.op = "call" /\ GroupSets.fset = {} /\ GroupSets.other = <<>>)
        => ret.val = Py(\E i \in 1..Len(GroupSubincludes) :
                           /\ startswith(ret.arg, GroupSubincludes[i][1])
                           /\ callinner(GroupSubincludes[i][2],
                                        Drop(ret.arg, Len(GroupSubincludes[i][1]))))


----------------------------------------------------------------------------
(* The claim about concurrent calls *)

\* C8: under every interleaving of the threads, the inner matcher of a
\* prefix is constructed and stored in the cache at most once.
C8_SingleWriter ==
    \A p \in DOMAIN stores : stores[p] <= 1


----------------------------------------------------------------------------
(* The claim about the overflow split *)

\* the composed regex of the whole list is longer than the limit
Overflows == TextLen(regextext(kps, SuffixEnd)) > MaxRegexLen

\* what the un-split alternation of all fragments accepts
Unsplit(s) == rematch(regextext(kps, SuffixEnd), s)

\* C9 as stated: when the composed regex is longer than 20000 characters
\* the build succeeds, for lists of every length, and the function accepts
\* what the un-split alternation accepts.
C9_SplitAlwaysSucceeds ==
    (rx.k = "built" /\ Overflows)
        => /\ ~rx.err
           /\ ret.op = "mf" => ret.val = Py(Unsplit(ret.arg))

\* C9 amended: when the composed regex is longer than 20000 characters,
\* the build raises OverflowError exactly when the regex of some single
\* pattern, '(?:' fragment ')', is itself longer than 20000 characters;
\* otherwise it succeeds and the function accepts what the un-split
\* alternation accepts.
C9_SplitUnlessOneTooLong ==
    (rx.k = "built" /\ Overflows)
        => /\ rx.err <=> \E i \in 1..Len(kps) :
                             TextLen(regextext(<<kps[i]>>, SuffixEnd)) > MaxRegexLen
           /\ ret.op = "mf" => ret.val = Py(Unsplit(ret.arg))

C9_Witness ==
    /\ rx.k = "built"
    /\ Overflows
    /\ Len(kps) = 3
    /\ ~rx.err
    /\ rx.fn.k = "or"
    /\ ret.op = "mf"
    /\ ret.val = "True"
    /\ ~callregexfn(rx.fn.a, ret.arg)


----------------------------------------------------------------------------
(* The claims about always(), exact matchers and badmatch *)

\* C11: for every matcher, the subdirmatchers of prefix matchers among
\* them, when always() is true files() is empty and every path matches.
C11_AlwaysMeansAll ==
    \A id \in DOMAIN heap :
        always(heap[id])
            => /\ files(heap[id]) = <<>>
               /\ \A p \in Paths : callmatchfn(World, id, p).ret


\* a matcher built in exact mode with no include and no exclude
ExactOnly == args.exact /\ args.include = <<>> /\ args.exclude = <<>>

\* C12 as stated: for an exact matcher of the files F, visitdir(d) is
\* "all" for every d in F and True for every proper ancestor of an
\* element of F.
C12_ExactAll ==
    (ExactOnly /\ ret.op = "visitdir" /\ ret.obj = "m")
        => /\ ret.arg \in Range(args.patterns) => ret.val = "all"
           /\ ret.arg \in dirs(Range(args.patterns)) \ Range(args.patterns)
                  => ret.val = "True"

\* C12 amended: for an exact matcher of the files F, visitdir(d) is never
\* "all"; it is True for every d in F, for every proper ancestor of an
\* element of F ("." among them) and for every directory below an element
\* of F, and for every d when F is empty; it is False for the others.
C12_ExactTrue ==
    (ExactOnly /\ ret.op = "visitdir" /\ ret.obj = "m")
        => ret.val = Py(\/ args.patterns = <<>>
                        \/ ret.arg \in Range(args.patterns)
                        \/ ret.arg \in dirs(Range(args.patterns)) \cup {Dot}
                        \/ \E f \in Range(args.patterns) : Below(ret.arg, f))

C12_Witness ==
    /\ ExactOnly
    /\ Len(args.patterns) = 2
    /\ ret.op = "visitdir"
    /\ ret.arg \in Range(args.patterns)
    /\ Len(ret.arg) = 3
    /\ ret.val = "True"
    /\ visitdir(World, "m", <<"b">>).ret = "True"

\* C13 as stated: isexact() is true if and only if the matcher was built
\* with exact=True, with or without include and exclude.
C13_IsExactIffExactMode ==
    isexact(heap["m"], "m") <=> args.exact

\* C13 amended: the isexact() of a matcher returned by match() is true if
\* and only if it was built with exact=True and with no include and no
\* exclude; a file list filtered by an include or an exclude is not exact.
C13_IsExactIffExactOnly ==
    isexact(heap["m"], "m") <=> ExactOnly

C13_Witness ==
    /\ args.exact
    /\ args.include # <<>>
    /\ ~isexact(heap["m"], "m")
    /\ ret.op = "call"
    /\ ret.arg \in Range(args.patterns)
    /\ ret.val = "True"

\* C14: in every state reached by calls of the matcher, exact(f) and
\* visitdir and files(), and by the caller modifying the list it passed as
\* patterns or got from files(), exact(f) is true exactly when f is an
\* element of files().
C14_ExactIffInFiles ==
    \A f \in Paths :
        exact(World, "m", f).ret <=> f \in Range(files(heap["m"]))

\* C18: the matcher badmatch(m, badfn) returns gives, for every path and
\* directory, the results of m for the call, exact, files, visitdir,
\* isexact, always, anypats and prefix.
C18_BadMatchSameResults ==
    "bad" \in DOMAIN heap
        => /\ \A p \in Paths :
                  /\ callmatchfn(World, "bad", p).ret = callmatchfn(World, "m", p).ret
                  /\ exact(World, "bad", p).ret = exact(World, "m", p).ret
           /\ \A d \in Dirs : visitdir(World, "bad", d).ret = visitdir(World, "m", d).ret
           /\ files(heap["bad"]) = files(heap["m"])
           /\ isexact(heap["bad"], "bad") = isexact(heap["m"], "m")
           /\ always(heap["bad"]) = always(heap["m"])
           /\ anypats(heap["bad"]) = anypats(heap["m"])
           /\ prefix(heap["bad"], "bad") = prefix(heap["m"], "m")

----------------------------------------------------------------------------
(* The claims about the pattern file reader *)

\* the lines of the file read that emit a pattern, and the pattern that
\* the i-th line emitted
Emits(line) == line # <<>> /\ ~startswith(line, <<"s", "y", "n", "t", "a", "x", ":">>)

Emitted(i) == res.v[Cardinality({j \in 1..i : Emits(inp.lines[j])})]

\* the prefix and the kind the spec's table maps a syntax name to
SyntaxPrefix(name) ==
    CASE name = KindText.re -> Pat("relre", <<>>)
      [] name = <<"r", "e", "g", "e", "x", "p">> -> Pat("relre", <<>>)
      [] name = KindText.glob -> Pat("relglob", <<>>)
      [] name = KindText.include -> KindText.include
      [] name = KindText.subinclude -> KindText.subinclude

SyntaxKind(name) ==
    CASE name = KindText.re -> "relre"
      [] name = <<"r", "e", "g", "e", "x", "p">> -> "relre"
      [] name = KindText.glob -> "relglob"
      [] name = KindText.include -> "include"
      [] name = KindText.subinclude -> "subinclude"

Recognized == SyntaxNames \ {<<"f", "o", "o">>}

\* the recognized name of the last syntax line before line i, <<>> if none
RECURSIVE SyntaxBefore(_)
SyntaxBefore(i) ==
    IF i <= 1 THEN <<>>
    ELSE IF \E n \in Recognized : inp.lines[i - 1] = SyntaxLine(n)
    THEN CHOOSE n \in Recognized : inp.lines[i - 1] = SyntaxLine(n)
    ELSE SyntaxBefore(i - 1)

\* the default prefix in force at line i
DefaultAt(i) ==
    IF SyntaxBefore(i) = <<>> THEN Pat("relre", <<>>) ELSE SyntaxPrefix(SyntaxBefore(i))

\* the unknown names of the syntax lines of the file, in order
RECURSIVE UnknownNames(_)
UnknownNames(lines) ==
    IF lines = <<>> THEN <<>>
    ELSE (IF Head(lines) = SyntaxLine(<<"f", "o", "o">>) THEN <<<<"f", "o", "o">>>> ELSE <<>>)
         \o UnknownNames(Tail(lines))

\* C15: after a line 'syntax: name' with a name of the table, every line
\* with no kind before its text emits a pattern that _patsplit splits into
\* the kind mapped to the name and the line, until the next syntax line; a
\* syntax line with an unknown name gives a warning (to warn, when it is
\* given) and leaves the default as it was.
C15_SyntaxDirective ==
    res.k = "patterns"
        => /\ \A i \in 1..Len(inp.lines) :
                  (inp.lines[i] \in PlainLines /\ SyntaxBefore(i) # <<>>)
                      => _patsplit(Emitted(i), "glob")
                             = <<SyntaxKind(SyntaxBefore(i)), inp.lines[i]>>
           /\ inp.warn => warned = UnknownNames(inp.lines)

\* the first of the prefixes that line starts with, <<>> if none; and
\* whether it starts with one
StartsWithAny(line, prefixes) == \E q \in prefixes : startswith(line, q)

AfterAny(line, prefixes) ==
    Drop(line, Len(CHOOSE q \in prefixes : startswith(line, q)))

----------------------------------------------------------------------------
(* The claims about the normalizer *)

\* the list without its i-th element
RemoveAt(list, i) == SubSeq(list, 1, i - 1) \o SubSeq(list, i + 1, Len(list))

\* what _donormalize does with a list of patterns: the kindpats or Abort
Normalized(patterns) ==
    IF _donormalize_aborts(patterns, "glob") THEN [k |-> "Abort"]
    ELSE [k |-> "kindpats", v |-> _donormalize(patterns, "glob")]

\* the patterns of files that cannot be read
Unreadable(kinds) == {Pat(kind, <<"n">>) : kind \in kinds}

\* C17: when the file of an include: pattern cannot be read, that file is
\* warned about (to warn, when it is given, and when no earlier pattern
\* made the normalization fail) and the result is the result for the list
\* without that pattern; when the file of a listfile: or listfile0:
\* pattern cannot be read, the normalization raises Abort and returns no
\* list.
C17_UnreadableFiles ==
    res.k # "none"
        => \A i \in 1..Len(inp.patterns) :
              /\ inp.patterns[i] \in Unreadable({"include"})
                    => /\ res = Normalized(RemoveAt(inp.patterns, i))
                       /\ (inp.warn /\ ~_donormalize_aborts(SubSeq(inp.patterns, 1, i - 1), "glob"))
                             => <<"n">> \in Range(warned)
              /\ inp.patterns[i] \in Unreadable({"listfile", "listfile0"})
                    => res = [k |-> "Abort"]

C17_Witness ==
    /\ inp.k = "patterns"
    /\ inp.warn
    /\ inp.patterns = <<Pat("listfile0", <<"y">>), Pat("include", <<"n">>), Pat("glob", <<"b">>)>>
    /\ res = [k |-> "kindpats",
              v |-> <<<<"glob", <<"a">>, <<"y">>>>, <<"glob", <<"b">>, <<"y">>>>,
                      <<"glob", <<"b">>, <<>>>>>>]
    /\ warned = <<<<"n">>>>

=============================================================================
